---- MODULE Spec2Model ----
(***************************************************************************)
(* chord-script: the markup parser of src/src/parser/mod.rs.               *)
(*                                                                         *)
(* parse_chart is a pure function of its input text.  The input is a       *)
(* sequence of characters (one-character strings); every chumsky           *)
(* combinator of the source is an operator taking the text s and the       *)
(* offset i (1-based) of the next unread character and returning           *)
(*   [ok |-> did it match, pos |-> offset after the match, out |-> value]. *)
(* `or` commits to its first alternative that matches, `repeated` stops at *)
(* the first failure of its item and rewinds to where that item began,     *)
(* and nothing backtracks into an item that has matched.                   *)
(*                                                                         *)
(* The line-oriented chord-chart parser of src/src/parser.rs is modelled   *)
(* after it (legacy_parse_chart), as a fold of its loop body over the      *)
(* lines of the file.                                                      *)
(***************************************************************************)
EXTENDS Integers, Sequences, FiniteSets, TLC

VARIABLES input, pc, result

vars == <<input, pc, result>>

\* ------------------------------------------------------------------ bounds

\* Longest input text typed one character at a time.
MaxLen == 5

\* Most lines of an input assembled from whole lines.
MaxLines == 3

\* The characters inputs are made of: the level, column and style marker
\* characters, the two kinds of whitespace and one ordinary letter.
Chars == {"=", "-", "<", ">", "*", " ", "\n", "a"}

\* ------------------------------------------------------------ text helpers

\* char::is_whitespace, on the characters of Chars
is_whitespace(c) == c \in {" ", "\n"}

RECURSIVE trim_start(_)
trim_start(t) ==
    IF t # <<>> /\ is_whitespace(Head(t)) THEN trim_start(Tail(t)) ELSE t

RECURSIVE trim_end(_)
trim_end(t) ==
    IF t # <<>> /\ is_whitespace(t[Len(t)])
    THEN trim_end(SubSeq(t, 1, Len(t) - 1))
    ELSE t

\* str::trim
trim(t) == trim_end(trim_start(t))

\* ------------------------------------------------------ chumsky primitives

\* just(tok): the next characters are exactly tok
just(s, i, tok) ==
    /\ i + Len(tok) - 1 <= Len(s)
    /\ SubSeq(s, i, i + Len(tok) - 1) = tok

\* none_of(excl).repeated(): offset after the longest run of characters
\* outside excl that starts at i (i itself when the run is empty)
RECURSIVE none_of_repeated(_, _, _)
none_of_repeated(s, i, excl) ==
    IF i <= Len(s) /\ s[i] \notin excl
    THEN none_of_repeated(s, i + 1, excl)
    ELSE i

\* the whitespace skipping of padded(), before and after its parser
RECURSIVE skip_whitespace(_, _)
skip_whitespace(s, i) ==
    IF i <= Len(s) /\ is_whitespace(s[i]) THEN skip_whitespace(s, i + 1) ELSE i

\* end(): no input is left
end(s, i) == i = Len(s) + 1

\* a parser that did not match
NoMatch == [ok |-> FALSE, pos |-> 0, out |-> <<>>]

Match(p, o) == [ok |-> TRUE, pos |-> p, out |-> o]

\* ----------------------------------------------------- styled_text_parser

TextSpan(text, style) == [text |-> text, style |-> style]

\* the body [b, e) of a marked span and its closing marker:
\* .repeated().at_least(1).collect::<String>(), .then_ignore(just(marker)),
\* .map(|(_, text)| TextSpan { text: text.trim().to_string(), style })
marked_body(s, b, e, marker, style) ==
    IF e > b /\ just(s, e, marker)
    THEN Match(e + Len(marker), TextSpan(trim(SubSeq(s, b, e - 1)), style))
    ELSE NoMatch

\* just(marker), then none_of(excl).repeated().at_least(1), then just(marker)
marked_span(s, i, marker, excl, style) ==
    IF just(s, i, marker)
    THEN marked_body(s, i + Len(marker),
                     none_of_repeated(s, i + Len(marker), excl), marker, style)
    ELSE NoMatch

\* the triple marker read as a bold span
triple_as_bold(s, i) == marked_span(s, i, <<"*", "*", "*">>, {"*"}, "Bold")

bold_italic(s, i) == marked_span(s, i, <<"*", "*", "*">>, {"*"}, "BoldItalic")

\* a bold pair producing the style of the triple marker
bold_as_bold_italic(s, i) ==
    marked_span(s, i, <<"*", "*">>, {"*"}, "BoldItalic")

\* bold without .then_ignore(just("**")): the span ends where its body ends
bold_unclosed(s, i) ==
    IF just(s, i, <<"*", "*">>) /\ none_of_repeated(s, i + 2, {"*"}) > i + 2
    THEN Match(none_of_repeated(s, i + 2, {"*"}),
               TextSpan(trim(SubSeq(s, i + 2,
                                    none_of_repeated(s, i + 2, {"*"}) - 1)),
                        "Bold"))
    ELSE NoMatch

bold(s, i) == marked_span(s, i, <<"*", "*">>, {"*"}, "Bold")

\* italic with none_of("*\n"): column markers allowed in its body
italic_with_column_markers(s, i) ==
    marked_span(s, i, <<"*">>, {"*", "\n"}, "Italic")

italic(s, i) == marked_span(s, i, <<"*">>, {"*", "<", ">", "\n"}, "Italic")

\* the run [i, e) of a plain span: .repeated().at_least(1), .map(..trim()..)
plain_run(s, i, e) ==
    IF e > i
    THEN Match(e, TextSpan(trim(SubSeq(s, i, e - 1)), "Normal"))
    ELSE NoMatch

\* plain with none_of("<>*"): a line break does not end the run
plain_across_lines(s, i) ==
    plain_run(s, i, none_of_repeated(s, i, {"<", ">", "*"}))

plain(s, i) == plain_run(s, i, none_of_repeated(s, i, {"<", ">", "*", "\n"}))

\* a.or(b): a's match if a matched, else b's
or(a, b) == IF a.ok THEN a ELSE b

styled_text_parser(s, i) ==
    or(bold_italic(s, i), or(bold(s, i), or(italic(s, i), plain(s, i))))

\* collect() putting the item x after the items of rest
push_back(x, rest) == Match(rest.pos, rest.out \o <<x>>)

\* collect(): the item x before the items of rest
push_front(x, rest) == Match(rest.pos, <<x>> \o rest.out)

RECURSIVE styled_text_repeated(_, _)

\* one round of repeated(): r is what the item made of the text at i
styled_text_next(s, i, r) ==
    IF r.ok
    THEN push_front(r.out, styled_text_repeated(s, r.pos))
    ELSE Match(i, <<>>)

\* styled_text_parser().repeated().collect::<Vec<_>>(): never fails
styled_text_repeated(s, i) == styled_text_next(s, i, styled_text_parser(s, i))

\* --------------------------------------------------------- columns_parser

\* the tuple (left, center, right) the three forms map to; right is the
\* match of the last column parsed
Columns(left, center, right) ==
    Match(right.pos, [left |-> left, center |-> center, right |-> right.out])

\* just(marker).ignore_then(styled_text_parser().repeated().collect())
\*     .or_not(): None is the empty column (unwrap_or_default)
marker_column_or_not(s, i, marker) ==
    IF just(s, i, marker)
    THEN styled_text_repeated(s, i + Len(marker))
    ELSE Match(i, <<>>)

\* .then(just(">").ignore_then(..).or_not()) after the center column
center_then_right(s, center) ==
    Columns(<<>>, center.out, marker_column_or_not(s, center.pos, <<">">>))

with_center(s, i) ==
    IF just(s, i, <<"<", ">">>)
    THEN center_then_right(s, styled_text_repeated(s, i + 2))
    ELSE NoMatch

\* with_left without its .then(just(">")..or_not()): no right after center
left_center_only(s, left, center) ==
    Columns(left.out, center.out, Match(center.pos, <<>>))

\* .then(just(">").ignore_then(..).or_not()) after left and center
left_center_then_right(s, left, center) ==
    Columns(left.out, center.out,
            marker_column_or_not(s, center.pos, <<">">>))

\* with_left without its .then(just("<>")..or_not()): no center after left
left_without_center(s, left) ==
    left_center_then_right(s, left, Match(left.pos, <<>>))

\* .then(just("<>").ignore_then(..).or_not()) after the left column
left_then_center(s, left) ==
    left_center_then_right(s, left,
                           marker_column_or_not(s, left.pos, <<"<", ">">>))

with_left(s, i) ==
    IF just(s, i, <<"<">>)
    THEN left_then_center(s, styled_text_repeated(s, i + 1))
    ELSE NoMatch

\* no_markers mapping its spans to (Vec::new(), Vec::new(), left)
right_only(left) ==
    Match(left.pos, [left |-> <<>>, center |-> <<>>, right |-> left.out])

\* no column marker: every span is the left column
left_only(left) ==
    Match(left.pos, [left |-> left.out, center |-> <<>>, right |-> <<>>])

\* with_right mapping its spans to (right, Vec::new(), Vec::new())
right_as_left(s, i) ==
    IF just(s, i, <<">">>)
    THEN left_only(styled_text_repeated(s, i + 1))
    ELSE NoMatch

with_right(s, i) ==
    IF just(s, i, <<">">>)
    THEN Columns(<<>>, <<>>, styled_text_repeated(s, i + 1))
    ELSE NoMatch

no_markers(s, i) == left_only(styled_text_repeated(s, i))

columns_parser(s, i) ==
    or(with_center(s, i),
       or(with_left(s, i), or(with_right(s, i), no_markers(s, i))))

\* ------------------------------------------------------------ line_parser

\* header3.or(header2).or(header1).or(text_level): shortest marker first
level_shortest_first(s, i) ==
    IF just(s, i, <<"=">>) THEN Match(i + 1, "Header3")
    ELSE IF just(s, i, <<"=", "=">>) THEN Match(i + 2, "Header2")
    ELSE IF just(s, i, <<"=", "=", "=">>) THEN Match(i + 3, "Header1")
    ELSE IF just(s, i, <<"-">>) THEN Match(i + 1, "Text")
    ELSE NoMatch

\* header1.or(header2).or(header3).or(text_level)
level(s, i) ==
    IF just(s, i, <<"=", "=", "=">>) THEN Match(i + 3, "Header1")
    ELSE IF just(s, i, <<"=", "=">>) THEN Match(i + 2, "Header2")
    ELSE IF just(s, i, <<"=">>) THEN Match(i + 1, "Header3")
    ELSE IF just(s, i, <<"-">>) THEN Match(i + 1, "Text")
    ELSE NoMatch

\* .map(|(level, (left, center, right))| Line { level, left, center, right })
Line(lv, cols) ==
    Match(cols.pos,
          [level |-> lv, left |-> cols.out.left, center |-> cols.out.center,
           right |-> cols.out.right])

\* .then(columns_parser()) after level.padded(): lv is the level's match
level_then_columns(s, lv) ==
    IF lv.ok
    THEN Line(lv.out, columns_parser(s, skip_whitespace(s, lv.pos)))
    ELSE NoMatch

\* (level.padded()).then(columns_parser()).map(..)
line_parser(s, i) == level_then_columns(s, level(s, skip_whitespace(s, i)))

\* ----------------------------------------------------------- chart_parser

\* the whitespace padded() skips after its parser has matched
padded_after(s, r) ==
    IF r.ok THEN Match(skip_whitespace(s, r.pos), r.out) ELSE NoMatch

\* line_parser().padded()
padded_line(s, i) == padded_after(s, line_parser(s, skip_whitespace(s, i)))

RECURSIVE line_repeated(_, _)

\* one round of repeated(): r is what the item made of the text at i; a
\* failed item leaves the offset where it began (before its whitespace)
line_next(s, i, r) ==
    IF r.ok
    THEN push_front(r.out, line_repeated(s, r.pos))
    ELSE Match(i, <<>>)

\* line_parser().padded().repeated().collect(): never fails
line_repeated(s, i) == line_next(s, i, padded_line(s, i))

\* chart_parser without .then_ignore(end()): what is left is not looked at
without_end(s, r) == r

\* .then_ignore(end())
then_end(s, r) == IF end(s, r.pos) THEN r ELSE NoMatch

chart_parser(s) == then_end(s, line_repeated(s, 1))

\* ------------------------------------------------------------ parse_chart

\* Chart::new
Chart(lines) == [lines |-> lines]

\* The parser uses no recovery, so a failed parse carries exactly one
\* error: the one chumsky reports for the whole run.
ErrorMessage == "Parse error: error"

Ok(chart) == [tag |-> "Ok", chart |-> chart]

Err(errors) == [tag |-> "Err", errors |-> errors]

\* result.into_result(): the lines, or the errors of the run
into_result(r) == IF r.ok THEN Ok(Chart(r.out)) ELSE Err(<<ErrorMessage>>)

parse_chart(s) == into_result(chart_parser(s))

\* --------------------------------------------------------- specification

NoResult == [tag |-> "None"]

Init ==
    /\ input = <<>>
    /\ pc = "input"
    /\ result = NoResult

\* The caller extends the text by one character.
TypeChar(c) ==
    /\ pc = "input"
    /\ Len(input) < MaxLen
    /\ input' = Append(input, c)
    /\ UNCHANGED <<pc, result>>

\* The caller passes the text to parse_chart.
CallParseChart ==
    /\ pc = "input"
    /\ result' = parse_chart(input)
    /\ pc' = "done"
    /\ UNCHANGED input

Next ==
    \/ \E c \in Chars : TypeChar(c)
    \/ CallParseChart

Spec == Init /\ [][Next]_vars

\* ------------------------------------------- inputs assembled from lines

\* The level markers the lines of the second specification start with.
LineMarkers == {<<"=", "=", "=">>, <<"=">>, <<"-">>}

\* What follows a level marker on the lines of the second specification:
\* nothing, plain text, all three columns, a bold marker left open and a
\* bold marker closed without having been opened on the line.
Bodies ==
    { <<>>,
      <<" ", "a">>,
      <<"<", "a", "<", ">", "a", ">", "a">>,
      <<"*", "*", "a">>,
      <<"a", "*", "*">> }

\* The lines: every marker with every body, a line without a level marker
\* and a line of one space.
LineTexts ==
    {m \o b : m \in LineMarkers, b \in Bodies} \cup {<<"a">>, <<" ">>}

NumBreaks(s) == Cardinality({k \in 1..Len(s) : s[k] = "\n"})

AtLineStart(s) == IF s = <<>> THEN TRUE ELSE s[Len(s)] = "\n"

\* The caller writes one whole line at the start of a line.
TypeLine(l) ==
    /\ pc = "input"
    /\ AtLineStart(input)
    /\ NumBreaks(input) < MaxLines
    /\ input' = input \o l
    /\ UNCHANGED <<pc, result>>

\* The caller ends the current line (an empty line when nothing is on it).
BreakLine ==
    /\ pc = "input"
    /\ NumBreaks(input) < MaxLines
    /\ input' = Append(input, "\n")
    /\ UNCHANGED <<pc, result>>

NextLines ==
    \/ \E l \in LineTexts : TypeLine(l)
    \/ BreakLine
    \/ CallParseChart

SpecLines == Init /\ [][NextLines]_vars

\* ------------------------------------------------- inputs of one line

\* Longest body (the text after the level marker) of a one-line input.
MaxBody == 7

\* The level marker the line of the third specification starts with (the
\* first two specifications vary the level).
BodyMarkers == {<<"=", "=", "=">>}

\* The characters of a line's body: those of the column and style markers,
\* a space and a letter.
BodyChars == {"<", ">", "*", " ", "a"}

\* The length of the level marker s starts with.
MarkerLen(s) == IF just(s, 1, <<"=", "=", "=">>) THEN 3 ELSE 1

\* The caller starts the line with a level marker.
TypeMarker(m) ==
    /\ pc = "input"
    /\ input = <<>>
    /\ input' = m
    /\ UNCHANGED <<pc, result>>

\* The caller continues the line's body by one character.
TypeBodyChar(c) ==
    /\ pc = "input"
    /\ input # <<>>
    /\ Len(input) - MarkerLen(input) < MaxBody
    /\ input' = Append(input, c)
    /\ UNCHANGED <<pc, result>>

NextBody ==
    \/ \E m \in BodyMarkers : TypeMarker(m)
    \/ \E c \in BodyChars : TypeBodyChar(c)
    \/ CallParseChart

SpecBody == Init /\ [][NextBody]_vars

\* ------------------------------ legacy chord-chart parser (src/parser.rs)

\* Option<T>
NoneOpt == [some |-> FALSE]

Some(x) == [some |-> TRUE, value |-> x]

\* Result<T> of the helpers: Ok(v) or the message of the anyhow error
OkOf(v) == [ok |-> TRUE, out |-> v]

Bail(message) == [ok |-> FALSE, error |-> message]

\* str::lines: the texts between line breaks, no last empty line
RECURSIVE lines(_)

lines_from(s, e) == <<SubSeq(s, 1, e - 1)>> \o lines(SubSeq(s, e + 1, Len(s)))

lines(s) == IF s = <<>> THEN <<>> ELSE lines_from(s, none_of_repeated(s, 1, {"\n"}))

starts_with(l, prefix) == just(l, 1, prefix)

ends_with(l, suffix) ==
    IF Len(l) < Len(suffix) THEN FALSE ELSE just(l, Len(l) - Len(suffix) + 1, suffix)

\* str::contains(char)
contains(l, c) == \E k \in 1..Len(l) : l[k] = c

\* line.strip_prefix(prefix).unwrap().trim()
strip_prefix(l, prefix) == trim(SubSeq(l, Len(prefix) + 1, Len(l)))

RECURSIVE trim_start_matches(_, _)
trim_start_matches(t, cs) ==
    IF t = <<>> THEN t
    ELSE IF Head(t) \in cs THEN trim_start_matches(Tail(t), cs) ELSE t

RECURSIVE trim_end_matches(_, _)
trim_end_matches(t, cs) ==
    IF t = <<>> THEN t
    ELSE IF t[Len(t)] \in cs
         THEN trim_end_matches(SubSeq(t, 1, Len(t) - 1), cs)
         ELSE t

\* str::trim_matches: every leading and every trailing character in cs
trim_matches(t, cs) == trim_end_matches(trim_start_matches(t, cs), cs)

\* str::split(char): the texts between the separators, empty ones included
RECURSIVE split(_, _)

split_at(l, c, e) ==
    IF e > Len(l)
    THEN <<l>>
    ELSE <<SubSeq(l, 1, e - 1)>> \o split(SubSeq(l, e + 1, Len(l)), c)

split(l, c) == split_at(l, c, none_of_repeated(l, 1, {c}))

\* str::split_whitespace: the non-empty texts between whitespace
RECURSIVE split_whitespace(_)

split_whitespace_word(t, e) ==
    <<SubSeq(t, 1, e - 1)>> \o split_whitespace(SubSeq(t, e, Len(t)))

split_whitespace_from(t) ==
    IF t = <<>>
    THEN <<>>
    ELSE split_whitespace_word(t, none_of_repeated(t, 1, {" ", "\n"}))

split_whitespace(t) == split_whitespace_from(trim_start(t))

\* char::is_ascii_alphabetic
AsciiAlphabetic ==
    {"A", "B", "C", "D", "E", "F", "G", "H", "I", "J", "K", "L", "M",
     "N", "O", "P", "Q", "R", "S", "T", "U", "V", "W", "X", "Y", "Z",
     "a", "b", "c", "d", "e", "f", "g", "h", "i", "j", "k", "l", "m",
     "n", "o", "p", "q", "r", "s", "t", "u", "v", "w", "x", "y", "z"}

\* chart.rs: Chord, Measure, Section, Chart
Chord(root, quality, duration) ==
    [root |-> root, quality |-> quality, duration |-> duration]

\* Chord::full_name
full_name(chord) ==
    IF chord.quality.some THEN chord.root \o chord.quality.value ELSE chord.root

Measure(chords) == [chords |-> chords]

Section(name) == [name |-> name, measures |-> <<>>]

LegacyChart(title) ==
    [title          |-> title,
     composer       |-> NoneOpt,
     key            |-> NoneOpt,
     time_signature |-> Some(<<"4", "/", "4">>),
     sections       |-> <<>>]

\* the root note without the check for an accidental
root_without_accidental(chord_str) == SubSeq(chord_str, 1, 1)

\* the root note: the first character, with the accidental after it
root_of(chord_str) ==
    IF Len(chord_str) >= 2
    THEN IF chord_str[2] \in {"#", "b"}
         THEN SubSeq(chord_str, 1, 2)
         ELSE SubSeq(chord_str, 1, 1)
    ELSE SubSeq(chord_str, 1, 1)

\* the quality: what follows the root, None when nothing does
chord_with_root(chord_str, root, duration) ==
    Chord(root,
          IF Len(root) < Len(chord_str)
          THEN Some(SubSeq(chord_str, Len(root) + 1, Len(chord_str)))
          ELSE NoneOpt,
          duration)

parse_chord(chord_str, duration) ==
    IF chord_str = <<>>
    THEN Bail(<<"Empty chord string">>)
    ELSE IF chord_str[1] \notin AsciiAlphabetic
    THEN Bail(<<"Chord must start with a letter: ", chord_str>>)
    ELSE OkOf(chord_with_root(chord_str, root_of(chord_str), duration))

\* match chord_strs.len()
duration_of(n) ==
    CASE n = 1 -> "Whole"
      [] n = 2 -> "Half"
      [] n = 4 -> "Quarter"
      [] OTHER -> "Whole"

\* x pushed before what the rest of the loop pushes; `?` returns the error
pushed_before(x, rest) == IF rest.ok THEN OkOf(<<x>> \o rest.out) ELSE rest

\* for chord_str in chord_strs, from the k-th on
RECURSIVE parse_chords(_, _, _)

chord_then(chord_strs, k, duration, r) ==
    IF r.ok
    THEN pushed_before(r.out, parse_chords(chord_strs, k + 1, duration))
    ELSE r

parse_chords(chord_strs, k, duration) ==
    IF k > Len(chord_strs)
    THEN OkOf(<<>>)
    ELSE IF chord_strs[k] \in {<<"-">>, <<"%">>}
    THEN parse_chords(chord_strs, k + 1, duration)
    ELSE chord_then(chord_strs, k, duration,
                    parse_chord(chord_strs[k], duration))

\* for part in parts, from the k-th on
RECURSIVE parse_parts(_, _)

measure_then(parts, k, chords) ==
    IF chords.ok
    THEN pushed_before(Measure(chords.out), parse_parts(parts, k + 1))
    ELSE chords

\* the duration fixed by the number of chords, repeat symbols not counted
part_chords_without_repeats(parts, k, chord_strs) ==
    IF chord_strs = <<>>
    THEN parse_parts(parts, k + 1)
    ELSE measure_then(parts, k,
             parse_chords(chord_strs, 1,
                 duration_of(Len(SelectSeq(chord_strs,
                     LAMBDA w : w \notin {<<"-">>, <<"%">>})))))

part_chords(parts, k, chord_strs) ==
    IF chord_strs = <<>>
    THEN parse_parts(parts, k + 1)
    ELSE measure_then(parts, k,
             parse_chords(chord_strs, 1, duration_of(Len(chord_strs))))

parse_parts(parts, k) ==
    IF k > Len(parts)
    THEN OkOf(<<>>)
    ELSE part_chords(parts, k, split_whitespace(trim(parts[k])))

\* as parse_measure_line, every `|` opening a measure of its own
parse_measure_line_per_bar(line) ==
    pushed_before(Measure(<<>>), parse_parts(split(line, "|"), 1))

parse_measure_line(line) == parse_parts(split(line, "|"), 1)

\* the locals of parse_chart: chart, current_section, and the error of `?`
Locals(chart, current_section, error) ==
    [chart |-> chart, current_section |-> current_section, error |-> error]

\* the field set only while it is None
set_field_once(chart, field, value) ==
    IF chart.some
    THEN IF chart.value[field].some
         THEN chart
         ELSE Some([chart.value EXCEPT ![field] = Some(value)])
    ELSE chart

\* if let Some(ref mut c) = chart { c.<field> = Some(value) }
set_field(chart, field, value) ==
    IF chart.some
    THEN Some([chart.value EXCEPT ![field] = Some(value)])
    ELSE chart

\* if let Some(section) = .. { if let Some(ref mut c) = chart { push } }
push_section(chart, section) ==
    IF section.some /\ chart.some
    THEN Some([chart.value EXCEPT !.sections = Append(@, section.value)])
    ELSE chart

\* section.measures.extend(measures), or the error of parse_measure_line
extend_measures(st, section, measures) ==
    IF measures.ok
    THEN Locals(st.chart,
                Some([section EXCEPT !.measures = @ \o measures.out]),
                NoneOpt)
    ELSE Locals(st.chart, Some(section), Some(measures.error))

\* if current_section.is_none() { current_section = Some(Section "Main") }
section_or_main(current_section) ==
    IF current_section.some THEN current_section.value ELSE Section(<<"M", "a", "i", "n">>)

\* the body of the loop for one trimmed line
parse_line(st, line) ==
    IF line = <<>> THEN st
    ELSE IF starts_with(line, <<"#">>) THEN st
    ELSE IF starts_with(line, <<"T", "i", "t", "l", "e", ":">>)
    THEN Locals(Some(LegacyChart(strip_prefix(line, <<"T", "i", "t", "l", "e", ":">>))),
                st.current_section, NoneOpt)
    ELSE IF starts_with(line, <<"C", "o", "m", "p", "o", "s", "e", "r", ":">>)
    THEN Locals(set_field(st.chart, "composer", strip_prefix(line, <<"C", "o", "m", "p", "o", "s", "e", "r", ":">>)),
                st.current_section, NoneOpt)
    ELSE IF starts_with(line, <<"K", "e", "y", ":">>)
    THEN Locals(set_field(st.chart, "key", strip_prefix(line, <<"K", "e", "y", ":">>)),
                st.current_section, NoneOpt)
    ELSE IF starts_with(line, <<"T", "i", "m", "e", ":">>)
    THEN Locals(set_field(st.chart, "time_signature", strip_prefix(line, <<"T", "i", "m", "e", ":">>)),
                st.current_section, NoneOpt)
    ELSE IF starts_with(line, <<"[">>) /\ ends_with(line, <<"]">>)
    THEN Locals(push_section(st.chart, st.current_section),
                Some(Section(trim_matches(line, {"[", "]"}))),
                NoneOpt)
    ELSE IF contains(line, "|")
    THEN extend_measures(st, section_or_main(st.current_section),
                         parse_measure_line(line))
    ELSE st

AnyhowErr(message) == [tag |-> "Err", message |-> message]

\* chart.unwrap_or(an untitled chart), never an error
unwrap_or_untitled(chart) ==
    IF chart.some THEN Ok(chart.value) ELSE Ok(LegacyChart(<<>>))

\* chart.ok_or_else(..)
ok_or_else(chart) ==
    IF chart.some
    THEN Ok(chart.value)
    ELSE AnyhowErr(<<"No chart title found in file">>)

\* while let Some(line) = lines.next(), from the k-th line on, then the
\* last section saved
RECURSIVE parse_lines(_, _, _)
parse_lines(ls, k, st) ==
    IF st.error.some
    THEN AnyhowErr(st.error.value)
    ELSE IF k > Len(ls)
    THEN ok_or_else(push_section(st.chart, st.current_section))
    ELSE parse_lines(ls, k + 1, parse_line(st, trim(ls[k])))

\* parser.rs parse_chart
legacy_parse_chart(content) ==
    parse_lines(lines(content), 1, Locals(NoneOpt, NoneOpt, NoneOpt))

\* ----------------------------------------- specification: a .cchart file

MaxLegacyLines == 4

\* The lines a chart file is written from.
LegacyLineTexts ==
    {<<"T", "i", "t", "l", "e", ":", "T">>,
     <<"[", "A", "]">>,
     <<" ", "[", "[", "B", "]", " ">>,
     <<"|", "C", "|", "G", "m", "7">>,
     <<"C", " ", "F", "#", "|", "|", "-">>,
     <<"|", "1">>,
     <<>>,
     <<"#", "|", "1">>,
     <<"K", "e", "y", ":", "C">>}

\* The caller writes one more line of the file.
TypeLegacyLine(l) ==
    /\ pc = "input"
    /\ NumBreaks(input) < MaxLegacyLines
    /\ input' = input \o l \o <<"\n">>
    /\ UNCHANGED <<pc, result>>

CallLegacyParseChart ==
    /\ pc = "input"
    /\ result' = legacy_parse_chart(input)
    /\ pc' = "done"
    /\ UNCHANGED input

NextLegacy ==
    \/ \E l \in LegacyLineTexts : TypeLegacyLine(l)
    \/ CallLegacyParseChart

SpecLegacy == Init /\ [][NextLegacy]_vars

\* ------------------------------------- specification: one chord string

MaxChord == 4

\* The characters of a chord string: two letters (one of them the flat
\* sign), the sharp sign, a digit and a space.
ChordChars == {"C", "b", "#", "7", " "}

\* enum Duration
Durations == {"Whole", "Half", "Quarter"}

\* The caller writes one more character of the chord string.
TypeChordChar(c) ==
    /\ pc = "input"
    /\ Len(input) < MaxChord
    /\ input' = Append(input, c)
    /\ UNCHANGED <<pc, result>>

\* A call of parse_chord: its duration argument and what it returned.
ChordCall(duration, ret) == [duration |-> duration, ret |-> ret]

CallParseChord(duration) ==
    /\ pc = "input"
    /\ result' = ChordCall(duration, parse_chord(input, duration))
    /\ pc' = "done"
    /\ UNCHANGED input

NextChord ==
    \/ \E c \in ChordChars : TypeChordChar(c)
    \/ \E duration \in Durations : CallParseChord(duration)

SpecChord == Init /\ [][NextChord]_vars

\* ------------------------------------- SvgGenerator (src/render/svg/mod.rs)

\* SvgConfig::default().  Lengths are in half points, so that width / 2.0
\* is an integer: 595pt x 842pt, margins of 28pt.
LayoutConfig ==
    [width |-> 1190, height |-> 1684,
     margin_horizontal |-> 56, margin_vertical |-> 56]

FontFamily == "sans-serif"

\* font_style_for_level: size, weight and line height of the level
font_style_for_level(lv) ==
    CASE lv = "Header1" -> [size |-> 36, weight |-> "500", line_height |-> 48]
      [] lv = "Header2" -> [size |-> 28, weight |-> "450", line_height |-> 40]
      [] lv = "Header3" -> [size |-> 22, weight |-> "420", line_height |-> 32]
      [] lv = "Text"    -> [size |-> 20, weight |-> "normal", line_height |-> 28]

line_height_for_level(lv) == font_style_for_level(lv).line_height

\* TSpan::new(&span.text) with the attributes of the style of the span
TSpan(span) ==
    [text        |-> span.text,
     font_weight |-> IF span.style \in {"Bold", "BoldItalic"}
                     THEN Some("bold") ELSE NoneOpt,
     font_style  |-> IF span.style \in {"Italic", "BoldItalic"}
                     THEN Some("italic") ELSE NoneOpt]

\* for span in spans { text_el = text_el.add(tspan) }
tspans_of(spans) == [k \in 1..Len(spans) |-> TSpan(spans[k])]

\* SvgText::new("").set("x", x)..: no text-anchor yet
SvgText(x, y, style, children) ==
    [x |-> x, y |-> y, font_family |-> FontFamily,
     font_size |-> style.size, font_weight |-> style.weight,
     text_anchor |-> NoneOpt, children |-> children]

render_spans(spans, x, y, lv) ==
    SvgText(x, y, font_style_for_level(lv), tspans_of(spans))

\* text_el.set("text-anchor", anchor)
set_text_anchor(text_el, anchor) == [text_el EXCEPT !.text_anchor = anchor]

\* a column rendered whether or not it has spans
column_always(spans, x, y, lv, anchor) ==
    <<set_text_anchor(render_spans(spans, x, y, lv), anchor)>>

\* if !spans.is_empty() { document = document.add(text_el) }
column(spans, x, y, lv, anchor) ==
    IF spans = <<>>
    THEN <<>>
    ELSE <<set_text_anchor(render_spans(spans, x, y, lv), anchor)>>

\* the body of the loop of render for one line, y already advanced
render_line(line, layout, y) ==
    column(line.left, layout.margin_horizontal, y, line.level, NoneOpt)
    \o column(line.center, layout.width \div 2, y, line.level, Some("middle"))
    \o column(line.right, layout.width - layout.margin_horizontal, y,
              line.level, Some("end"))

\* for line in &chart.lines, from the k-th line on
RECURSIVE render_lines(_, _, _, _)

render_line_at(ls, k, layout, y) ==
    render_line(ls[k], layout, y) \o render_lines(ls, k + 1, layout, y)

render_lines(ls, k, layout, y) ==
    IF k > Len(ls)
    THEN <<>>
    ELSE render_line_at(ls, k, layout,
                        y + line_height_for_level(ls[k].level))

\* Document::new().set("viewBox", ..)..: the nodes the svg crate writes out
\* in the order they were added
Document(layout, children) ==
    [width |-> layout.width, height |-> layout.height, children |-> children]

\* SvgGenerator::render
render(chart) ==
    Document(LayoutConfig,
             render_lines(chart.lines, 1, LayoutConfig,
                          LayoutConfig.margin_vertical))

\* ----------------------------------------- specification: a chart rendered

MaxRenderLines == 2

\* The columns a chart's lines are built from.
RenderLefts ==
    {<<>>,
     <<TextSpan(<<"L">>, "Normal")>>,
     <<TextSpan(<<"N">>, "Normal"), TextSpan(<<"b">>, "Bold")>>}

RenderCenters == {<<>>, <<TextSpan(<<"C">>, "Italic")>>}

RenderRights == {<<>>, <<TextSpan(<<"R">>, "BoldItalic")>>}

RenderLevels == {"Header1", "Text"}

\* The caller adds a Line to the chart it builds.
AddLine(lv, left, center, right) ==
    /\ pc = "input"
    /\ Len(input) < MaxRenderLines
    /\ input' = Append(input, [level |-> lv, left |-> left,
                               center |-> center, right |-> right])
    /\ UNCHANGED <<pc, result>>

CallRender ==
    /\ pc = "input"
    /\ result' = render(Chart(input))
    /\ pc' = "done"
    /\ UNCHANGED input

NextRender ==
    \/ \E lv \in RenderLevels : \E left \in RenderLefts :
       \E center \in RenderCenters : \E right \in RenderRights :
           AddLine(lv, left, center, right)
    \/ CallRender

SpecRender == Init /\ [][NextRender]_vars

\* ------------------------- specification: a .cchart file and its metadata

MaxMetaLines == 4

\* The lines a chart file with metadata is written from: two titles, the
\* three other directives, two headers and a measure line.
MetaLineTexts ==
    {<<"T", "i", "t", "l", "e", ":", "T">>,
     <<"T", "i", "t", "l", "e", ":", " ", "U">>,
     <<"K", "e", "y", ":", "C">>,
     <<"C", "o", "m", "p", "o", "s", "e", "r", ":", "X">>,
     <<"T", "i", "m", "e", ":", "3", "/", "4">>,
     <<"[", "A", "]">>,
     <<"[", "B", "]">>,
     <<"|", "C", "|", "G">>}

\* The caller writes one more line of the file.
TypeMetaLine(l) ==
    /\ pc = "input"
    /\ NumBreaks(input) < MaxMetaLines
    /\ input' = input \o l \o <<"\n">>
    /\ UNCHANGED <<pc, result>>

NextMeta ==
    \/ \E l \in MetaLineTexts : TypeMetaLine(l)
    \/ CallLegacyParseChart

SpecMeta == Init /\ [][NextMeta]_vars

\* --------------------------------------- specification: one measure line

MaxMeasureTokens == 6

\* What a measure line is written from: a chord name and the two repeat
\* symbols, each with the space after it, the bar and a space.
MeasureTokens ==
    {<<"C", " ">>, <<"-", " ">>, <<"%", " ">>, <<"|">>, <<" ">>}

\* How many tokens the line has: its bars, and its spaces but those that
\* end a token (every character but a bar or a space ends with one).
RECURSIVE TokenCount(_)
TokenCount(l) ==
    IF l = <<>> THEN 0
    ELSE IF Head(l) \in {"|", " "} THEN 1 + TokenCount(Tail(l))
    ELSE TokenCount(Tail(Tail(l))) + 1

\* The caller writes one more token of the line.
TypeMeasureToken(tok) ==
    /\ pc = "input"
    /\ TokenCount(input) < MaxMeasureTokens
    /\ input' = input \o tok
    /\ UNCHANGED <<pc, result>>

\* parse_chart reads the line: trimmed, it has a bar and is a measure line.
CallParseMeasureLine ==
    /\ pc = "input"
    /\ contains(input, "|")
    /\ result' = parse_measure_line(trim(input))
    /\ pc' = "done"
    /\ UNCHANGED input

NextMeasure ==
    \/ \E tok \in MeasureTokens : TypeMeasureToken(tok)
    \/ CallParseMeasureLine

SpecMeasure == Init /\ [][NextMeasure]_vars

\* ------------------------------------------------- vocabulary of claims

Done == pc = "done"

IsOk == Done /\ result.tag = "Ok"

IsErr == Done /\ result.tag = "Err"

Range(f) == {f[k] : k \in DOMAIN f}

\* The lines of a text: what stands between its line breaks.
RECURSIVE SplitLines(_)
SplitLines(s) ==
    IF "\n" \notin Range(s)
    THEN <<s>>
    ELSE LET k == CHOOSE k \in 1..Len(s) :
                      s[k] = "\n" /\ \A j \in 1..(k - 1) : s[j] # "\n"
         IN  <<SubSeq(s, 1, k - 1)>> \o SplitLines(SubSeq(s, k + 1, Len(s)))

IsBlank(l) == Range(l) \subseteq {" ", "\n"}

NotBlank(l) == ~IsBlank(l)

NonBlankLines(s) == SelectSeq(SplitLines(s), NotBlank)

\* A non-blank line that parse_chart rejects when it is the whole input.
Malformed(l) == NotBlank(l) /\ parse_chart(l).tag = "Err"

NumMalformed(s) ==
    Cardinality({k \in 1..Len(SplitLines(s)) : Malformed(SplitLines(s)[k])})

SpansOfLine(l) == Range(l.left) \cup Range(l.center) \cup Range(l.right)

\* Every TextSpan of a Document.
SpansOf(chart) == UNION {SpansOfLine(l) : l \in Range(chart.lines)}

Stars(s) == {k \in 1..Len(s) : s[k] = "*"}

\* [a, b] is a maximal run of `*` in s.
IsStarRun(s, a, b) ==
    /\ 1 <= a /\ a <= b /\ b <= Len(s)
    /\ \A k \in a..b : s[k] = "*"
    /\ (a > 1 => s[a - 1] # "*")
    /\ (b < Len(s) => s[b + 1] # "*")

\* The only `*` characters of s are one marker of n stars, with text after
\* it: the marker is opened and nothing closes it before the input ends.
UnclosedMarker(s, n) ==
    \E a \in 1..Len(s) :
        /\ IsStarRun(s, a, a + n - 1)
        /\ Stars(s) = a..(a + n - 1)
        /\ a + n - 1 < Len(s)

\* s without its `*` characters
WithoutStars(s) == SelectSeq(s, LAMBDA c : c # "*")

\* ------------------------------------------------------------------ C1

\* C1: parse_chart returns a Document or a non-empty error list, and the
\* error list whenever a line of the input is malformed.
C1_DocumentOrErrors ==
    Done =>
        /\ result.tag \in {"Ok", "Err"}
        /\ (result.tag = "Err" => result.errors # <<>>)
        /\ (NumMalformed(input) >= 1 => result.tag = "Err")

\* ------------------------------------------------------------------ C2

\* C2: the error list holds an entry for every malformed line of the input.
C2_ErrorsAggregated ==
    IsErr => Len(result.errors) >= NumMalformed(input)

\* ------------------------------------------------------------------ C3

\* The text is one line: a level marker, spaces, then the center marker.
CenterWithoutLeft(s) ==
    /\ "\n" \notin Range(s)
    /\ \E m \in {<<"=", "=", "=">>, <<"=", "=">>, <<"=">>, <<"-">>} :
       \E k \in 0..Len(s) :
           /\ just(s, 1, m)
           /\ \A j \in (Len(m) + 1)..(Len(m) + k) : j <= Len(s) /\ s[j] = " "
           /\ just(s, Len(m) + k + 1, <<"<", ">">>)

\* C3: a line whose body begins with the center marker is an error.
C3_CenterWithoutLeftFails ==
    Done /\ CenterWithoutLeft(input) => result.tag = "Err"

\* ------------------------------------------------------------------ C4

\* C4: an input whose only style marker (`*`, `**` or `***`) is opened,
\* followed by text and never closed is an error.
C4_UnclosedMarkerFails ==
    \A n \in 1..3 : Done /\ UnclosedMarker(input, n) => result.tag = "Err"

\* An unclosed `***` on a line that parses once the marker is taken away.
C4_Witness ==
    /\ IsErr
    /\ UnclosedMarker(input, 3)
    /\ parse_chart(WithoutStars(input)).tag = "Ok"

\* ------------------------------------------------------------------ C5

\* C5: no TextSpan of a returned Document holds a line break (a style span
\* does not cross a line break).
C5_NoSpanCrossesLineBreak ==
    IsOk => \A sp \in SpansOf(result.chart) : "\n" \notin Range(sp.text)

\* ------------------------------------------------------------------ C6

\* C6: every TextSpan of a returned Document has a non-empty text.
C6_NoEmptySpanText ==
    IsOk => \A sp \in SpansOf(result.chart) : sp.text # <<>>

\* ------------------------------------------------------------------ C7

\* The only `*` characters of s are an opening marker of n stars and the
\* same marker closing it, with nothing but whitespace (at least one
\* character) between them.
WhitespaceOnlySpan(s, n) ==
    \E a, b \in 1..Len(s) :
        /\ IsStarRun(s, a, a + n - 1)
        /\ IsStarRun(s, b, b + n - 1)
        /\ a + n < b
        /\ \A k \in (a + n)..(b - 1) : is_whitespace(s[k])
        /\ Stars(s) = (a..(a + n - 1)) \cup (b..(b + n - 1))

\* C7: a styled span whose body is only whitespace is an error.
C7_WhitespaceOnlySpanFails ==
    \A n \in 1..3 : Done /\ WhitespaceOnlySpan(input, n) => result.tag = "Err"

\* ------------------------------------------------------------------ C8

\* C8: an input of whitespace and line breaks only is an empty Document.
C8_BlankInputIsEmptyDocument ==
    Done /\ IsBlank(input) => result = Ok(Chart(<<>>))

\* ------------------------------------------------------------------ C9

\* The level a line's first characters stand for, read off the characters
\* at offset i: three or more `=`, two `=`, one `=`, or `-`.
MarkerLevelAt(s, i) ==
    IF i > Len(s) THEN "None"
    ELSE IF s[i] = "-" THEN "Text"
    ELSE IF s[i] # "=" THEN "None"
    ELSE IF i + 1 > Len(s) \/ s[i + 1] # "=" THEN "Header3"
    ELSE IF i + 2 > Len(s) \/ s[i + 2] # "=" THEN "Header2"
    ELSE "Header1"

MarkerLenAt(s, i) ==
    CASE MarkerLevelAt(s, i) = "Header1" -> 3
      [] MarkerLevelAt(s, i) = "Header2" -> 2
      [] MarkerLevelAt(s, i) \in {"Header3", "Text"} -> 1
      [] OTHER -> 0

\* A line that starts with a level marker, has something other than
\* whitespace after it, and is one Line when it is the whole input.
ContentLine(l) ==
    /\ MarkerLevelAt(l, 1) # "None"
    /\ \E k \in (MarkerLenAt(l, 1) + 1)..Len(l) : ~is_whitespace(l[k])
    /\ LET alone == parse_chart(l)
       IN  alone.tag = "Ok" /\ Len(alone.chart.lines) = 1

\* The Line of a content line: its marker's level, its content's columns.
LineOf(l) ==
    [parse_chart(l).chart.lines[1] EXCEPT !.level = MarkerLevelAt(l, 1)]

ContentLinesOnly(s) ==
    LET ls == NonBlankLines(s)
    IN  ls # <<>> /\ \A k \in 1..Len(ls) : ContentLine(ls[k])

\* C9: an input of n content lines, with blank lines anywhere around them,
\* is a Document of exactly their n Lines, in input order.
C9_MultiLineOrdering ==
    Done /\ ContentLinesOnly(input) =>
        /\ result.tag = "Ok"
        /\ LET ls == NonBlankLines(input)
           IN  result.chart.lines = [k \in 1..Len(ls) |-> LineOf(ls[k])]

\* Two content lines of different levels with a blank line between them.
C9_Witness ==
    /\ IsOk
    /\ ContentLinesOnly(input)
    /\ Len(NonBlankLines(input)) = 2
    /\ Len(SplitLines(input)) >= 3
    /\ Len(result.chart.lines) = 2
    /\ result.chart.lines[1].level # result.chart.lines[2].level

\* ------------------------------------------------------------------ C10

\* Where the Lines of the text begin: the offset of the first character
\* after the whitespace before each line that line_parser matched.
RECURSIVE LineStarts(_, _)
LineStarts(s, i) ==
    IF padded_line(s, i).ok
    THEN <<skip_whitespace(s, i)>> \o LineStarts(s, padded_line(s, i).pos)
    ELSE <<>>

\* C10: every Line has the level of the longest level marker at the place
\* where the Line begins: Header1 for `===`, Header2 for `==` not followed
\* by `=`, Header3 for `=` not followed by `=`, Text for `-`.
C10_LevelLongestMatch ==
    IsOk =>
        /\ Len(LineStarts(input, 1)) = Len(result.chart.lines)
        /\ \A k \in 1..Len(result.chart.lines) :
               /\ result.chart.lines[k].level
                      \in {"Header1", "Header2", "Header3", "Text"}
               /\ result.chart.lines[k].level
                      = MarkerLevelAt(input, LineStarts(input, 1)[k])

\* A line of four `=`: Header1, the fourth `=` being its text.
C10_Witness ==
    /\ IsOk
    /\ just(input, 1, <<"=", "=", "=", "=">>)
    /\ Len(result.chart.lines) = 1
    /\ result.chart.lines[1].level = "Header1"
    /\ result.chart.lines[1].left = <<TextSpan(<<"=">>, "Normal")>>

\* ------------------------------------------------------------------ C11

\* A non-blank line whose first character after its leading whitespace is
\* neither `=` nor `-`: it starts with none of the four level markers.
LacksLevelMarker(l) ==
    NotBlank(l) /\ MarkerLevelAt(trim_start(l), 1) = "None"

\* C11: an input with a non-blank line that starts with no level marker,
\* first line or not, is an error.
C11_MissingLevelMarkerFails ==
    Done /\ (\E l \in Range(SplitLines(input)) : LacksLevelMarker(l))
        => result.tag = "Err"

\* ------------------------------------------------------------------ C12

\* A plain text: no marker character, no line break, not blank.
PlainText(t) ==
    /\ Range(t) \cap {"<", ">", "*", "\n"} = {}
    /\ NotBlank(t)

\* The offset of the first character of s from offset i on that is in cs
\* (Len(s) + 1 when there is none).
RECURSIVE Find(_, _, _)
Find(s, i, cs) ==
    IF i > Len(s) \/ s[i] \in cs THEN i ELSE Find(s, i + 1, cs)

MarkerChars == {"<", ">", "*", "\n"}

\* Where the first, second and third marker characters of the body of s
\* (what follows its level marker) stand.
FirstMark(s) == Find(s, MarkerLenAt(s, 1) + 1, MarkerChars)

SecondMark(s) == Find(s, FirstMark(s) + 1, MarkerChars)

ThirdMark(s) == Find(s, SecondMark(s) + 2, MarkerChars)

\* The columns of a body `<` L `<>` C `>` R.
LeftText(s) == SubSeq(s, FirstMark(s) + 1, SecondMark(s) - 1)

CenterText(s) == SubSeq(s, SecondMark(s) + 2, ThirdMark(s) - 1)

RightText(s) == SubSeq(s, ThirdMark(s) + 1, Len(s))

\* The body of the one-line text s is spaces, `<`, L, `<>`, C, `>`, R,
\* with L, C and R plain texts.
ThreeColumns(s) ==
    /\ MarkerLevelAt(s, 1) # "None"
    /\ FirstMark(s) < Len(s)
    /\ s[FirstMark(s)] = "<"
    /\ ThirdMark(s) < Len(s)
    /\ IsBlank(SubSeq(s, MarkerLenAt(s, 1) + 1, FirstMark(s) - 1))
    /\ s[SecondMark(s)] = "<" /\ s[SecondMark(s) + 1] = ">"
    /\ s[ThirdMark(s)] = ">"
    /\ PlainText(LeftText(s))
    /\ PlainText(CenterText(s))
    /\ PlainText(RightText(s))

NormalColumn(t) == <<TextSpan(trim(t), "Normal")>>

\* C12: a line whose body is `<` L `<>` C `>` R with plain L, C and R is
\* one Line with left = [trim(L)], center = [trim(C)], right = [trim(R)],
\* every span Normal.
C12_ColumnPrecedence ==
    Done /\ ThreeColumns(input) =>
        result = Ok(Chart(<<
            [level  |-> MarkerLevelAt(input, 1),
             left   |-> NormalColumn(LeftText(input)),
             center |-> NormalColumn(CenterText(input)),
             right  |-> NormalColumn(RightText(input))]
        >>))

\* A Header1 line of three columns has been parsed.
C12_Witness ==
    /\ IsOk
    /\ ThreeColumns(input)
    /\ Len(result.chart.lines) = 1
    /\ result.chart.lines[1].level = "Header1"
    /\ result.chart.lines[1].center # <<>>

\* ------------------------------------------------------------------ C13

\* What follows the level marker s starts with.
Body(s) == SubSeq(s, MarkerLenAt(s, 1) + 1, Len(s))

NoColumnMarker(s) == Range(s) \cap {"<", ">"} = {}

\* C13: when the input holds no column marker, every Line has an empty
\* center and an empty right column; a line whose body is a plain text is
\* the one Line with that text, trimmed, as the only span of its left column.
C13_NoMarkerLine ==
    Done /\ NoColumnMarker(input) =>
        /\ IsOk => \A k \in 1..Len(result.chart.lines) :
                       /\ result.chart.lines[k].center = <<>>
                       /\ result.chart.lines[k].right = <<>>
        /\ MarkerLevelAt(input, 1) # "None" /\ PlainText(Body(input)) =>
               result = Ok(Chart(<<
                   [level  |-> MarkerLevelAt(input, 1),
                    left   |-> NormalColumn(Body(input)),
                    center |-> <<>>,
                    right  |-> <<>>]
               >>))

\* A Header1 line of plain text with a space inside it.
C13_Witness ==
    /\ IsOk
    /\ NoColumnMarker(input)
    /\ PlainText(Body(input))
    /\ Len(result.chart.lines) = 1
    /\ result.chart.lines[1].level = "Header1"
    /\ Len(result.chart.lines[1].left) = 1
    /\ " " \in Range(result.chart.lines[1].left[1].text)

\* ------------------------------------------------------------------ C14

\* The body of the one-line text s is spaces, `<`, L, `>`, R with L and R
\* plain texts: a left and a right marker, no center marker.
LeftAndRight(s) ==
    /\ MarkerLevelAt(s, 1) # "None"
    /\ FirstMark(s) < Len(s)
    /\ s[FirstMark(s)] = "<"
    /\ SecondMark(s) < Len(s)
    /\ IsBlank(SubSeq(s, MarkerLenAt(s, 1) + 1, FirstMark(s) - 1))
    /\ s[SecondMark(s)] = ">"
    /\ PlainText(LeftText(s))
    /\ PlainText(SubSeq(s, SecondMark(s) + 1, Len(s)))

\* C14: a line whose body is `<` L `>` R with plain L and R is one Line
\* with left = [trim(L)], an empty center and right = [trim(R)].
C14_LeftAndRightWithoutCenter ==
    Done /\ LeftAndRight(input) =>
        result = Ok(Chart(<<
            [level  |-> MarkerLevelAt(input, 1),
             left   |-> NormalColumn(LeftText(input)),
             center |-> <<>>,
             right  |-> NormalColumn(SubSeq(input, SecondMark(input) + 1,
                                            Len(input)))]
        >>))

\* A left-and-right line whose columns need trimming has been parsed.
C14_Witness ==
    /\ IsOk
    /\ LeftAndRight(input)
    /\ Len(result.chart.lines) = 1
    /\ result.chart.lines[1].center = <<>>
    /\ Len(LeftText(input)) > Len(result.chart.lines[1].left[1].text)
    /\ Len(result.chart.lines[1].right) = 1

\* ------------------------------------------------------------------ C15

\* The body of s begins, after spaces, with the right marker.
RightOnly(s) ==
    /\ MarkerLevelAt(s, 1) # "None"
    /\ FirstMark(s) <= Len(s)
    /\ IsBlank(SubSeq(s, MarkerLenAt(s, 1) + 1, FirstMark(s) - 1))
    /\ s[FirstMark(s)] = ">"

\* C15: when the body of the first line begins with `>`, the first Line of
\* an Ok result has an empty left and an empty center; when a plain text R
\* follows the marker the result is Ok, the one Line with right = [trim(R)].
C15_RightOnly ==
    Done /\ RightOnly(input) =>
        /\ IsOk => /\ result.chart.lines # <<>>
                   /\ result.chart.lines[1].left = <<>>
                   /\ result.chart.lines[1].center = <<>>
        /\ PlainText(SubSeq(input, FirstMark(input) + 1, Len(input))) =>
               result = Ok(Chart(<<
                   [level  |-> MarkerLevelAt(input, 1),
                    left   |-> <<>>,
                    center |-> <<>>,
                    right  |-> NormalColumn(SubSeq(input, FirstMark(input) + 1,
                                                   Len(input)))]
               >>))

\* A right-only line with a plain right column has been parsed.
C15_Witness ==
    /\ IsOk
    /\ RightOnly(input)
    /\ Len(result.chart.lines) = 1
    /\ result.chart.lines[1].left = <<>>
    /\ Len(result.chart.lines[1].right) = 1
    /\ result.chart.lines[1].right[1].style = "Normal"

\* ------------------------------------------------------------------ C16

\* The style marker of k `*` characters.
StarMarker(k) == [j \in 1..k |-> "*"]

StyleOfMarker(k) ==
    CASE k = 0 -> "Normal"
      [] k = 1 -> "Italic"
      [] k = 2 -> "Bold"
      [] k = 3 -> "BoldItalic"

\* What b holds between a marker of k characters at each of its ends.
Wrapped(b, k) == SubSeq(b, k + 1, Len(b) - k)

\* b is a plain text between two style markers of k characters each.
IsWrapped(b, k) ==
    /\ Len(b) > 2 * k
    /\ SubSeq(b, 1, k) = StarMarker(k)
    /\ SubSeq(b, Len(b) - k + 1, Len(b)) = StarMarker(k)
    /\ PlainText(Wrapped(b, k))

\* C16: a line whose body is a plain text t between two markers of k = 3, 2,
\* 1 or 0 `*` characters is one Line whose left column is exactly one span,
\* trim(t) with the style BoldItalic, Bold, Italic or Normal respectively.
C16_StyleMarkersLongestFirst ==
    Done /\ MarkerLevelAt(input, 1) # "None" =>
        \A k \in 0..3 :
            IsWrapped(Body(input), k) =>
                result = Ok(Chart(<<
                    [level  |-> MarkerLevelAt(input, 1),
                     left   |-> <<TextSpan(trim(Wrapped(Body(input), k)),
                                           StyleOfMarker(k))>>,
                     center |-> <<>>,
                     right  |-> <<>>]
                >>))

\* `***a***` has been parsed into a BoldItalic span.
C16_Witness ==
    /\ IsOk
    /\ IsWrapped(Body(input), 3)
    /\ Len(result.chart.lines) = 1
    /\ Len(result.chart.lines[1].left) = 1
    /\ result.chart.lines[1].left[1].style = "BoldItalic"

\* ------------------------------------------------------------------ C17

\* enum TextStyle
TextStyles == {"Normal", "Bold", "Italic", "BoldItalic"}

\* s has the substring `***`.
HasTripleMarker(s) ==
    \E i \in 1..Len(s) - 2 : s[i] = "*" /\ s[i + 1] = "*" /\ s[i + 2] = "*"

\* C17: every span of a returned document has one of the four styles and a
\* text without `*`, and it is BoldItalic only if the input has a `***`.
C17_StylesDoNotNest ==
    IsOk =>
        \A span \in SpansOf(result.chart) :
            /\ span.style \in TextStyles
            /\ "*" \notin Range(span.text)
            /\ span.style = "BoldItalic" => HasTripleMarker(input)

\* A bold span next to another span, from an input without `***`.
C17_Witness ==
    /\ IsOk
    /\ ~HasTripleMarker(input)
    /\ \E span \in SpansOf(result.chart) : span.style = "Bold"
    /\ \E span \in SpansOf(result.chart) : span.style # "Bold"

\* ------------------------------------------------------------------ C18

\* The text of the column the runs of s stand in: what follows the right
\* marker when the body begins with it, else the body.
BeginsRight(s) == IF Body(s) = <<>> THEN FALSE ELSE Body(s)[1] = ">"

ColumnText(s) == IF BeginsRight(s) THEN Tail(Body(s)) ELSE Body(s)

\* The Line of s with spans as that column.
LineWithColumn(s, spans) ==
    [level  |-> MarkerLevelAt(s, 1),
     left   |-> IF BeginsRight(s) THEN <<>> ELSE spans,
     center |-> <<>>,
     right  |-> IF BeginsRight(s) THEN spans ELSE <<>>]

\* The span of the run r, a text between two markers of k characters.
RunSpan(r, k) == TextSpan(trim(Wrapped(r, k)), StyleOfMarker(k))

\* Adjacent runs: a plain run next to a styled span.
Alternate(k1, k2) == (k1 = 0) # (k2 = 0)

\* The result for s is the one Line whose column holds exactly spans.
ColumnIs(s, spans) == result = Ok(Chart(<<LineWithColumn(s, spans)>>))

\* How many `*` characters stand in c from offset i on.
LeadStars(c, i) == Find(c, i, Chars \ {"*"}) - i

\* Where the run of c that begins at offset i ends: a plain run before the
\* next `*`, a styled span with the marker that closes it.
RunEnd(c, i) ==
    IF LeadStars(c, i) = 0
    THEN Find(c, i, {"*"}) - 1
    ELSE Find(c, i + LeadStars(c, i), {"*"}) + LeadStars(c, i) - 1

\* c[i..j] is a run: a plain text, or one between two markers of at most
\* three characters.
IsRun(c, i, j) ==
    /\ LeadStars(c, i) <= 3
    /\ IsWrapped(SubSeq(c, i, j), LeadStars(c, i))

RunSpanAt(c, i, j) == RunSpan(SubSeq(c, i, j), LeadStars(c, i))

\* c is exactly two runs, a plain run next to a styled span.
TwoRuns(c) ==
    LET p == RunEnd(c, 1)
    IN  /\ "*" \in Range(c)
        /\ p < Len(c)
        /\ Alternate(LeadStars(c, 1), LeadStars(c, p + 1))
        /\ IsRun(c, 1, p)
        /\ IsRun(c, p + 1, Len(c))

\* c is exactly three runs, plain runs alternating with styled spans.
ThreeRuns(c) ==
    LET p == RunEnd(c, 1)
    IN  /\ "*" \in Range(c)
        /\ p < Len(c)
        /\ RunEnd(c, p + 1) < Len(c)
        /\ Alternate(LeadStars(c, 1), LeadStars(c, p + 1))
        /\ Alternate(LeadStars(c, p + 1), LeadStars(c, RunEnd(c, p + 1) + 1))
        /\ IsRun(c, 1, p)
        /\ IsRun(c, p + 1, RunEnd(c, p + 1))
        /\ IsRun(c, RunEnd(c, p + 1) + 1, Len(c))

TwoRunsInOrder(s, c) ==
    LET p == RunEnd(c, 1)
    IN  TwoRuns(c) =>
            ColumnIs(s, <<RunSpanAt(c, 1, p), RunSpanAt(c, p + 1, Len(c))>>)

ThreeRunsInOrder(s, c) ==
    LET p == RunEnd(c, 1)
        q == RunEnd(c, p + 1)
    IN  ThreeRuns(c) =>
            ColumnIs(s, <<RunSpanAt(c, 1, p), RunSpanAt(c, p + 1, q),
                          RunSpanAt(c, q + 1, Len(c))>>)

\* C18: a column whose text is two or three runs, plain runs alternating
\* with styled spans, holds one span per run, in the order of the text,
\* each with its text trimmed and the style of its own marker.
C18_SpanOrderIsInputOrder ==
    Done /\ MarkerLevelAt(input, 1) # "None" =>
        /\ TwoRunsInOrder(input, ColumnText(input))
        /\ ThreeRunsInOrder(input, ColumnText(input))

\* Two runs in the left column, one of them trimmed: the first span is
\* Normal and the second Bold.
C18_Witness ==
    /\ IsOk
    /\ ~BeginsRight(input)
    /\ TwoRuns(ColumnText(input))
    /\ " " \in Range(input)
    /\ Len(result.chart.lines[1].left) = 2
    /\ result.chart.lines[1].left[1].style = "Normal"
    /\ result.chart.lines[1].left[2].style = "Bold"

\* Three runs have been parsed into the right column.
C18_WitnessRight ==
    /\ IsOk
    /\ BeginsRight(input)
    /\ ThreeRuns(ColumnText(input))
    /\ Len(result.chart.lines[1].right) = 3

\* ------------------------------------------------------------------ C19

\* A line without a level marker, and nothing else wrong with it.
MissingLevelMarkerInput == <<"a">>

\* C19: the messages returned for an unclosed style marker on a line that
\* has its level marker differ from the messages returned for a line that
\* lacks its level marker.
C19_ErrorCategoriesDistinguishable ==
    \A n \in 1..3 :
        /\ Done
        /\ IsErr
        /\ MarkerLevelAt(input, 1) # "None"
        /\ UnclosedMarker(input, n)
        => result.errors # parse_chart(MissingLevelMarkerInput).errors

\* ------------------------------------------------------------------ C20

IsTitleLine(l) == starts_with(trim(l), <<"T", "i", "t", "l", "e", ":">>)

IsHeaderLine(l) ==
    /\ starts_with(trim(l), <<"[">>)
    /\ ends_with(trim(l), <<"]">>)

\* A comment or a metadata directive.
IsDirectiveLine(l) ==
    \E prefix \in {<<"#">>, <<"T", "i", "t", "l", "e", ":">>, <<"C", "o", "m", "p", "o", "s", "e", "r", ":">>,
                   <<"K", "e", "y", ":">>, <<"T", "i", "m", "e", ":">>} :
        starts_with(trim(l), prefix)

IsMeasureLine(l) ==
    /\ "|" \in Range(l)
    /\ ~IsHeaderLine(l)
    /\ ~IsDirectiveLine(l)

\* The file ls has exactly one `Title:` line and no header before it.
TitleFirst(ls) ==
    /\ Cardinality({k \in 1..Len(ls) : IsTitleLine(ls[k])}) = 1
    /\ \A k \in 1..Len(ls) :
           IsTitleLine(ls[k]) => \A j \in 1..(k - 1) : ~IsHeaderLine(ls[j])

\* The non-empty `|`-delimited cells of a line.
Cells(l) == SelectSeq(split(l, "|"), NotBlank)

\* The chord names of a cell: its words but the repeat symbols.
IsChordWord(w) == w \notin {<<"-">>, <<"%">>}

ChordWords(cell) == SelectSeq(split_whitespace(cell), IsChordWord)

\* The cells of the measure lines of ls after line a and before line b.
RECURSIVE CellsBetween(_, _, _)
CellsBetween(ls, a, b) ==
    IF a + 1 >= b THEN <<>>
    ELSE (IF IsMeasureLine(ls[a + 1]) THEN Cells(ls[a + 1]) ELSE <<>>)
         \o CellsBetween(ls, a + 1, b)

\* Where the header lines of ls stand, in order.
HeaderLines(ls) ==
    SelectSeq([k \in 1..Len(ls) |-> k], LAMBDA k : IsHeaderLine(ls[k]))

\* Name as `[Name]` spells it: the header without its first and last
\* character.
NameBetweenBrackets(l) == SubSeq(trim(l), 2, Len(trim(l)) - 1)

\* Name as the parser reads it: the header without any leading or trailing
\* bracket.
NameWithoutBrackets(l) == trim_matches(trim(l), {"[", "]"})

\* The line after the j-th header's section: the next header, or the end.
SectionEnd(ls, hs, j) == IF j < Len(hs) THEN hs[j + 1] ELSE Len(ls) + 1

\* The sections the file ls describes, each a name and its cells; named
\* tells how a header spells the name of its section (1: between its
\* brackets, 2: without its brackets).
ExpectedSections(ls, named) ==
    LET hs    == HeaderLines(ls)
        first == IF hs = <<>> THEN Len(ls) + 1 ELSE hs[1]
        main  == IF \E k \in 1..(first - 1) : IsMeasureLine(ls[k])
                 THEN <<[name |-> <<"M", "a", "i", "n">>,
                         cells |-> CellsBetween(ls, 0, first)]>>
                 ELSE <<>>
    IN  main \o
        [j \in 1..Len(hs) |->
            [name  |-> IF named = 1 THEN NameBetweenBrackets(ls[hs[j]])
                                    ELSE NameWithoutBrackets(ls[hs[j]]),
             cells |-> CellsBetween(ls, hs[j], SectionEnd(ls, hs, j))]]

\* The chord names of a measure, in order.
ChordNames(measure) ==
    [i \in 1..Len(measure.chords) |-> full_name(measure.chords[i])]

\* The section holds one measure per cell, in order, with the cell's chords.
SectionIs(section, expected) ==
    /\ section.name = expected.name
    /\ Len(section.measures) = Len(expected.cells)
    /\ \A k \in 1..Len(expected.cells) :
           ChordNames(section.measures[k]) = ChordWords(expected.cells[k])

SectionsAre(sections, expected) ==
    /\ Len(sections) = Len(expected)
    /\ \A j \in 1..Len(expected) : SectionIs(sections[j], expected[j])

\* Every word of every cell of every measure line is a repeat symbol or
\* begins with an ASCII letter.
ValidChords(ls) ==
    \A k \in 1..Len(ls) :
        IsMeasureLine(ls[k]) =>
            \A cell \in Range(Cells(ls[k])) :
                \A w \in Range(ChordWords(cell)) : w[1] \in AsciiAlphabetic

\* C20 as stated: for a file whose first directive is its single `Title:`
\* line the legacy parser returns a chart with one section per header, in
\* order, named by what stands between the header's brackets and holding the
\* measures of the cells up to the next header, after a section `Main` for
\* the measure lines before every header.
C20_LegacySections ==
    Done /\ TitleFirst(SplitLines(input)) =>
        /\ result.tag = "Ok"
        /\ SectionsAre(result.chart.sections,
                       ExpectedSections(SplitLines(input), 1))

\* C20 amended: the same for a file whose measure cells hold only repeat
\* symbols and chord names that begin with an ASCII letter, with each
\* section named by its header without any leading or trailing bracket.
C20_LegacySectionsOfValidChords ==
    Done /\ TitleFirst(SplitLines(input)) /\ ValidChords(SplitLines(input)) =>
        /\ result.tag = "Ok"
        /\ SectionsAre(result.chart.sections,
                       ExpectedSections(SplitLines(input), 2))

\* A chart of a section Main and a header's section, both with measures.
C20_Witness ==
    /\ IsOk
    /\ TitleFirst(SplitLines(input))
    /\ ValidChords(SplitLines(input))
    /\ Len(result.chart.sections) = 2
    /\ result.chart.sections[1].name = <<"M", "a", "i", "n">>
    /\ Len(result.chart.sections[1].measures) = 2
    /\ Len(result.chart.sections[2].measures) = 2

\* ------------------------------------------------------------------ C21

\* The root the claim describes: the first letter, and the second
\* character when that is `#` or `b`.
RootLen(s) ==
    IF Len(s) < 2 THEN 1 ELSE IF s[2] \in {"#", "b"} THEN 2 ELSE 1

StartsWithLetter(s) == IF s = <<>> THEN FALSE ELSE s[1] \in AsciiAlphabetic

\* C21: parse_chord of a string that starts with an ASCII letter returns the
\* chord of that root, with the rest as its quality (None when nothing is
\* left) and the duration passed, whose full_name is the string; for any
\* other string it returns an error.
C21_ParseChordRoundTrip ==
    Done =>
        IF StartsWithLetter(input)
        THEN /\ result.ret.ok
             /\ result.ret.out.root = SubSeq(input, 1, RootLen(input))
             /\ result.ret.out.quality =
                    IF RootLen(input) = Len(input)
                    THEN NoneOpt
                    ELSE Some(SubSeq(input, RootLen(input) + 1, Len(input)))
             /\ result.ret.out.duration = result.duration
             /\ full_name(result.ret.out) = input
        ELSE ~result.ret.ok

\* `C#7`-like with a Half duration: accidental and a quality.
C21_Witness ==
    /\ Done
    /\ StartsWithLetter(input)
    /\ RootLen(input) = 2
    /\ result.ret.ok
    /\ result.ret.out.quality.some
    /\ result.duration = "Half"

\* An empty string and a string that starts with a digit are refused.
C21_WitnessError ==
    /\ Done
    /\ input # <<>>
    /\ ~result.ret.ok

\* ------------------------------------------------------------------ C22

\* The columns of a line that have spans, in the order left, center, right,
\* each with where the claim puts it.
ColumnsToDraw(line) ==
    SelectSeq(<<[spans |-> line.left, x |-> LayoutConfig.margin_horizontal,
                 anchor |-> NoneOpt],
                [spans |-> line.center, x |-> LayoutConfig.width \div 2,
                 anchor |-> Some("middle")],
                [spans |-> line.right,
                 x |-> LayoutConfig.width - LayoutConfig.margin_horizontal,
                 anchor |-> Some("end")]>>,
              LAMBDA c : c.spans # <<>>)

\* The columns to draw of every line, line after line.
RECURSIVE AllColumnsToDraw(_)
AllColumnsToDraw(ls) ==
    IF ls = <<>> THEN <<>>
    ELSE ColumnsToDraw(Head(ls)) \o AllColumnsToDraw(Tail(ls))

\* The text element holds one tspan per span of the column, in span order.
ElementDraws(text_el, c) ==
    /\ text_el.x = c.x
    /\ text_el.text_anchor = c.anchor
    /\ Len(text_el.children) = Len(c.spans)
    /\ \A k \in 1..Len(c.spans) : text_el.children[k].text = c.spans[k].text

\* C22: the rendered document holds, line after line, one text element per
\* non-empty column in the order left, center, right: the left one at the
\* horizontal margin with no text-anchor, the center one at half the width
\* with `middle`, the right one at width minus margin with `end`, each with
\* one tspan per span in order.
C22_RenderColumns ==
    Done =>
        /\ Len(result.children) = Len(AllColumnsToDraw(input))
        /\ \A k \in 1..Len(result.children) :
               ElementDraws(result.children[k], AllColumnsToDraw(input)[k])

\* Two lines rendered, the first with its three columns, the second with a
\* right column only.
C22_Witness ==
    /\ Done
    /\ Len(input) = 2
    /\ Len(input[1].left) = 2 /\ input[1].center # <<>> /\ input[1].right # <<>>
    /\ input[2].left = <<>> /\ input[2].center = <<>> /\ input[2].right # <<>>
    /\ Len(result.children) = 4
    /\ result.children[4].text_anchor = Some("end")

\* ------------------------------------------------------------------ C23

HasColumnMarker(t) == Range(t) \cap {"<", ">"} # {}

\* b is a text with a column marker character in it, without `*` and not
\* blank, between two style markers of k characters each.
IsWrappedMarkers(b, k) ==
    /\ Len(b) > 2 * k
    /\ SubSeq(b, 1, k) = StarMarker(k)
    /\ SubSeq(b, Len(b) - k + 1, Len(b)) = StarMarker(k)
    /\ "*" \notin Range(Wrapped(b, k))
    /\ "\n" \notin Range(Wrapped(b, k))
    /\ HasColumnMarker(Wrapped(b, k))
    /\ NotBlank(Wrapped(b, k))

\* C23: no Italic span of a returned document has `<` or `>` in its text; a
\* body `*t*` whose t holds a column marker is refused, while `**t**` and
\* `***t***` with such a t are the one Bold or BoldItalic span of the left
\* column, text trim(t), nothing of t read as a column marker.
C23_ItalicExcludesColumnMarkers ==
    /\ IsOk => \A span \in SpansOf(result.chart) :
                   span.style = "Italic" => ~HasColumnMarker(span.text)
    /\ Done /\ MarkerLevelAt(input, 1) # "None" =>
           /\ IsWrappedMarkers(Body(input), 1) => result.tag = "Err"
           /\ \A k \in 2..3 :
                  IsWrappedMarkers(Body(input), k) =>
                      result = Ok(Chart(<<
                          [level  |-> MarkerLevelAt(input, 1),
                           left   |-> <<TextSpan(trim(Wrapped(Body(input), k)),
                                                 StyleOfMarker(k))>>,
                           center |-> <<>>,
                           right  |-> <<>>]
                      >>))

\* `**a<a**`-like: a Bold span with a column marker character in its text.
C23_Witness ==
    /\ IsOk
    /\ IsWrappedMarkers(Body(input), 2)
    /\ \E span \in SpansOf(result.chart) :
           span.style = "Bold" /\ HasColumnMarker(span.text)

\* `*a<a*`-like has been refused.
C23_WitnessItalic ==
    /\ IsErr
    /\ IsWrappedMarkers(Body(input), 1)

\* ------------------------------------------------------------------ C24

\* Nothing but spaces follows the level marker of the line l.
MarkerOnly(l) == MarkerLevelAt(l, 1) # "None" /\ IsBlank(Body(l))

\* A level marker and a plain text.
PlainLine(l) == MarkerLevelAt(l, 1) # "None" /\ PlainText(Body(l))

\* C24: a line of a level marker only, followed by a line of plain text, is
\* two Lines: the first of the first line's level with its three columns
\* empty, the second of the second line's level with the text as its left
\* column.
C24_MarkerOnlyLineStandsAlone ==
    Done /\ Len(SplitLines(input)) = 2
         /\ MarkerOnly(SplitLines(input)[1])
         /\ PlainLine(SplitLines(input)[2]) =>
        result = Ok(Chart(<<
            [level  |-> MarkerLevelAt(SplitLines(input)[1], 1),
             left |-> <<>>, center |-> <<>>, right |-> <<>>],
            [level  |-> MarkerLevelAt(SplitLines(input)[2], 1),
             left   |-> NormalColumn(Body(SplitLines(input)[2])),
             center |-> <<>>, right |-> <<>>]
        >>))

\* ------------------------------------------------------------------ C25

\* The column markers of the text b from offset i on, in order: `<>` where
\* a `<` is followed by `>`, else `<` or `>`.
RECURSIVE ColumnMarkersFrom(_, _)
ColumnMarkersFrom(b, i) ==
    IF i > Len(b) THEN <<>>
    ELSE IF just(b, i, <<"<", ">">>)
    THEN <<"<>">> \o ColumnMarkersFrom(b, i + 2)
    ELSE IF b[i] \in {"<", ">"}
    THEN <<b[i]>> \o ColumnMarkersFrom(b, i + 1)
    ELSE ColumnMarkersFrom(b, i + 1)

\* The markers of the four column forms.
ColumnForms ==
    {<<>>, <<"<>">>, <<"<>", ">">>,
     <<"<">>, <<"<", "<>">>, <<"<", ">">>, <<"<", "<>", ">">>,
     <<">">>}

\* Text that is not blank stands before the first column marker of b.
UnmarkedLeadingText(b) ==
    /\ HasColumnMarker(b)
    /\ NotBlank(SubSeq(b, 1, Find(b, 1, {"<", ">"}) - 1))

\* The body b matches one of the four column forms.
MatchesColumnForm(b) ==
    /\ ColumnMarkersFrom(b, 1) \in ColumnForms
    /\ ~UnmarkedLeadingText(b)

\* C25: a line without style markers parses exactly when its body matches
\* one of the four column forms: each column marker at most once, in the
\* order `<`, `<>`, `>`, and no unmarked text before the first of them.
C25_BodyMatchesColumnForm ==
    Done /\ MarkerLevelAt(input, 1) # "None"
         /\ "*" \notin Range(input) /\ "\n" \notin Range(input) =>
        (result.tag = "Ok" <=> MatchesColumnForm(Body(input)))

\* `a >a`-like: a right marker after unmarked leading text is refused.
C25_Witness ==
    /\ IsErr
    /\ "*" \notin Range(input)
    /\ UnmarkedLeadingText(Body(input))
    /\ ColumnMarkersFrom(Body(input), 1) = <<">">>

\* `<a <a`-like: a repeated left marker is refused.
C25_WitnessRepeated ==
    /\ IsErr
    /\ "*" \notin Range(input)
    /\ ColumnMarkersFrom(Body(input), 1) = <<"<", "<">>

\* `<a >a <>a`-like: markers out of order are refused.
C25_WitnessOutOfOrder ==
    /\ IsErr
    /\ "*" \notin Range(input)
    /\ ColumnMarkersFrom(Body(input), 1) = <<"<", ">", "<>">>

\* ------------------------------------------------------------------ C26

HasTitleLine(ls) == \E k \in 1..Len(ls) : IsTitleLine(ls[k])

NoTitleError == AnyhowErr(<<"No chart title found in file">>)

\* C26: with an invalid chord on a measure line the call is an error, the
\* one of parse_chord; else it is Ok when the file has a `Title:` line and
\* the error `No chart title found in file` when it has none.
C26_LegacyErrors ==
    Done =>
        IF ~ValidChords(SplitLines(input))
        THEN /\ result.tag = "Err"
             /\ result.message[1] = "Chord must start with a letter: "
        ELSE IF HasTitleLine(SplitLines(input))
        THEN result.tag = "Ok"
        ELSE result = NoTitleError

\* A file of measure lines with valid chords and no title is refused.
C26_Witness ==
    /\ Done
    /\ result = NoTitleError
    /\ \E l \in Range(SplitLines(input)) : IsMeasureLine(l)
    /\ \E l \in Range(SplitLines(input)) : IsHeaderLine(l)

\* A file with a title after an invalid chord is refused for the chord.
C26_WitnessChord ==
    /\ IsErr
    /\ HasTitleLine(SplitLines(input))
    /\ result # NoTitleError

\* ------------------------------------------------------------------ C27

\* The last line of ls after line a that, trimmed, starts with prefix
\* (0 when there is none).
LastWith(ls, prefix, a) ==
    LET S == {k \in (a + 1)..Len(ls) : starts_with(trim(ls[k]), prefix)}
    IN  IF S = {} THEN 0 ELSE CHOOSE k \in S : \A j \in S : j <= k

\* What the directive line l says after its prefix.
DirectiveValue(l, prefix) ==
    trim(SubSeq(trim(l), Len(prefix) + 1, Len(trim(l))))

\* The value of the last directive with this prefix after line a, or the
\* default.
LastValue(ls, prefix, a, default) ==
    IF LastWith(ls, prefix, a) = 0
    THEN default
    ELSE Some(DirectiveValue(ls[LastWith(ls, prefix, a)], prefix))

\* The sections of the file ls: its name, the line that opens it (0 for
\* Main) and the line that closes it (the next header, or the end).
SectionSpans(ls) ==
    LET hs    == HeaderLines(ls)
        first == IF hs = <<>> THEN Len(ls) + 1 ELSE hs[1]
        main  == IF \E k \in 1..(first - 1) : IsMeasureLine(ls[k])
                 THEN <<[name |-> <<"M", "a", "i", "n">>, from |-> 0, to |-> first]>>
                 ELSE <<>>
    IN  main \o
        [j \in 1..Len(hs) |->
            [name |-> NameWithoutBrackets(ls[hs[j]]),
             from |-> hs[j], to |-> SectionEnd(ls, hs, j)]]

\* The sections of ls that are closed after line t.
ClosedAfter(ls, t) == SelectSeq(SectionSpans(ls), LAMBDA sp : sp.to > t)

\* The sections are those of the spans, in order, each with one measure per
\* cell of its measure lines.
SectionsOfSpans(sections, ls, spans) ==
    /\ Len(sections) = Len(spans)
    /\ \A j \in 1..Len(spans) :
           /\ sections[j].name = spans[j].name
           /\ Len(sections[j].measures) =
                  Len(CellsBetween(ls, spans[j].from, spans[j].to))

\* The chart has the metadata and the sections that follow the `Title:`
\* line t of ls.
ChartAfterTitle(chart, ls, t) ==
    /\ chart.title = DirectiveValue(ls[t], <<"T", "i", "t", "l", "e", ":">>)
    /\ chart.composer = LastValue(ls, <<"C", "o", "m", "p", "o", "s", "e", "r", ":">>, t, NoneOpt)
    /\ chart.key = LastValue(ls, <<"K", "e", "y", ":">>, t, NoneOpt)
    /\ chart.time_signature = LastValue(ls, <<"T", "i", "m", "e", ":">>, t, Some(<<"4", "/", "4">>))
    /\ SectionsOfSpans(chart.sections, ls, ClosedAfter(ls, t))

\* C27: the chart returned for a file with a `Title:` line has the title of
\* the last such line, the composer, key and time signature of the last
\* directive of each kind after it (None, None and `4/4` when there is
\* none), and exactly the sections closed after it, in order.
C27_LastTitleReplacesChart ==
    Done /\ HasTitleLine(SplitLines(input)) =>
        /\ result.tag = "Ok"
        /\ ChartAfterTitle(result.chart, SplitLines(input),
                           LastWith(SplitLines(input), <<"T", "i", "t", "l", "e", ":">>, 0))

\* Two titles: a section closed before the second one is dropped, the one
\* being accumulated is kept.
C27_Witness ==
    /\ IsOk
    /\ Cardinality({k \in 1..Len(SplitLines(input)) :
                        IsTitleLine(SplitLines(input)[k])}) = 2
    /\ Len(HeaderLines(SplitLines(input))) = 2
    /\ Len(result.chart.sections) = 1
    /\ result.chart.title = <<"U">>

\* A key set before the last title is dropped.
C27_WitnessKey ==
    /\ IsOk
    /\ LastWith(SplitLines(input), <<"K", "e", "y", ":">>, 0) # 0
    /\ result.chart.key = NoneOpt

\* ------------------------------------------------------------------ C28

\* The duration the claim gives a cell of n words.
DurationOfWords(n) ==
    IF n = 1 THEN "Whole"
    ELSE IF n = 2 THEN "Half"
    ELSE IF n = 4 THEN "Quarter"
    ELSE "Whole"

\* The measure of a cell: a chord per word that is not a repeat symbol,
\* each with the duration of the number of words of the cell.
MeasureOfCell(cell) ==
    [chords |->
        [i \in 1..Len(ChordWords(cell)) |->
            Chord(ChordWords(cell)[i], NoneOpt,
                  DurationOfWords(Len(split_whitespace(cell))))]]

\* C28: parse_measure_line returns one measure per cell that is not blank,
\* in order, whose chords are the words of the cell but `-` and `%`, all
\* with the duration fixed by the number of words of the cell, repeat
\* symbols counted: Whole for 1, Half for 2, Quarter for 4, else Whole.
C28_MeasureDurations ==
    Done =>
        /\ result.ok
        /\ result.out = [k \in 1..Len(Cells(input)) |->
                            MeasureOfCell(Cells(input)[k])]

\* `C - C % |`-like: a cell of four words, two of them repeat symbols, is a
\* measure of two Quarter chords.
C28_Witness ==
    /\ Done
    /\ result.ok
    /\ Len(result.out) = 1
    /\ Len(result.out[1].chords) = 2
    /\ result.out[1].chords[1].duration = "Quarter"

\* A cell of repeat symbols only is a measure without chords, a blank cell
\* is no measure.
C28_WitnessRepeats ==
    /\ Done
    /\ result.ok
    /\ Len(result.out) = 1
    /\ result.out[1].chords = <<>>
    /\ Len(split(input, "|")) = 3

\* A cell of five words has Whole chords.
C28_WitnessFive ==
    /\ Done
    /\ result.ok
    /\ Len(result.out) = 1
    /\ Len(result.out[1].chords) = 5
    /\ result.out[1].chords[1].duration = "Whole"

====
